---------------------------- MODULE Spec2Model ----------------------------
(***************************************************************************)
(* A model of src/robot/writer/filewriters.py: the pipeline of             *)
(* _DataFileWriter.write (SeparatorRemover, SettingCleaner, ForLoopCleaner,*)
(* Aligner with its ColumnWidthCounter and ColumnAligner, Writer).         *)
(*                                                                         *)
(* Strings are sequences of one-character strings, so that padding,        *)
(* stripping, justification and case conversion are computed character by  *)
(* character.  The document (the parsed model handed to write) is the      *)
(* sequence of its nodes in the pre-order in which ast.NodeVisitor's       *)
(* generic_visit reaches them:                                             *)
(*   [node |-> "Section", type]        followed by its header Statement    *)
(*   [node |-> "TestOrKeyword"]        followed by its name Statement      *)
(*   [node |-> "ForLoop"]              followed by header, body, end       *)
(*   [node |-> "Statement", type, role, lines]                             *)
(* where role says which field of its parent holds the statement.          *)
(***************************************************************************)
EXTENDS Integers, Sequences, FiniteSets, TLC

VARIABLES
    model,      \* the document, mutated in place by every pass
    pc,         \* the pass of _DataFileWriter.write that is running
    pos,        \* index of the next node the running top-level visitor reaches
    sub,        \* Aligner.visit_Section: which visitor walks the section, and where
    counter,    \* the ColumnWidthCounter object
    aligner,    \* the ColumnAligner object
    writer,     \* the Writer object
    output,     \* configuration.output: the strings written so far, in order
    padLog,     \* observation: locals of the latest ColumnAligner.visit_Statement
    corrected,  \* observation: <<node, line, token>> where exp_pos -= name length ran
    merged,     \* observation: <<node, line>> where the first two widths were merged
    handed,     \* observation: per ColumnAligner constructed, its section and counter.widths
    stack,      \* the handlers of the running visitor that have not returned yet
    rowLog,     \* observation: one record per row written by Writer._write_statement
    blankLog    \* observation: the nodes before which Writer wrote a blank line

vars == <<model, pc, pos, sub, counter, aligner, writer, output,
          stack,
          padLog, corrected, merged, handed, rowLog, blankLog>>

---------------------------------------------------------------------------
(* Bounds of the explored documents *)

MaxBlocks == 2

MaxSections == 2

(* Program constants *)

NameThreshold == 18

SettingAndVariableNameWidth == 14

HeaderSeparatorTrim == 4

---------------------------------------------------------------------------
(* Strings *)

Min(a, b) == IF a < b THEN a ELSE b

Max(a, b) == IF a > b THEN a ELSE b

RECURSIVE SumTo(_, _)
SumTo(s, n) == IF n <= 0 THEN 0 ELSE s[n] + SumTo(s, n - 1)

RECURSIVE Concat(_)
Concat(ss) == IF ss = <<>> THEN <<>> ELSE Head(ss) \o Concat(Tail(ss))

\* Python: n * ' ' (the empty string when n <= 0)
Spaces(n) == IF n > 0 THEN [i \in 1..n |-> " "] ELSE <<>>

IsSpace(c) == c \in {" ", "\n", "\t"}

\* Python: s[a:b] for 0 <= a, with b possibly negative (counted from the end)
Slice(s, a, b) ==
    LET e == IF b < 0 THEN Len(s) + b ELSE Min(b, Len(s))
    IN  IF e <= a THEN <<>> ELSE SubSeq(s, a + 1, e)

RECURSIVE rstrip(_)
rstrip(s) ==
    IF s = <<>> THEN s
    ELSE IF IsSpace(s[Len(s)]) THEN rstrip(SubSeq(s, 1, Len(s) - 1)) ELSE s

RECURSIVE lstrip(_)
lstrip(s) ==
    IF s = <<>> THEN s
    ELSE IF IsSpace(s[1]) THEN lstrip(Tail(s)) ELSE s

strip(s) == lstrip(rstrip(s))

ljust(s, width) == s \o Spaces(width - Len(s))

LowerCase == <<"a","b","c","d","e","f","g","h","i","j","k","l","m",
               "n","o","p","q","r","s","t","u","v","w","x","y","z">>

UpperCase == <<"A","B","C","D","E","F","G","H","I","J","K","L","M",
               "N","O","P","Q","R","S","T","U","V","W","X","Y","Z">>

IsCased(c) == \E k \in 1..Len(LowerCase) : c = LowerCase[k] \/ c = UpperCase[k]

ToLower(c) ==
    IF \E k \in 1..Len(UpperCase) : c = UpperCase[k]
    THEN LowerCase[CHOOSE k \in 1..Len(UpperCase) : c = UpperCase[k]] ELSE c

ToUpper(c) ==
    IF \E k \in 1..Len(LowerCase) : c = LowerCase[k]
    THEN UpperCase[CHOOSE k \in 1..Len(LowerCase) : c = LowerCase[k]] ELSE c

lower(s) == [i \in 1..Len(s) |-> ToLower(s[i])]

\* Python: str.title(): a cased character is upper-cased after an uncased one
title(s) ==
    [i \in 1..Len(s) |->
        IF i = 1 \/ ~IsCased(s[i - 1]) THEN ToUpper(s[i]) ELSE ToLower(s[i])]

join(sep, values) ==
    Concat([i \in 1..Len(values) |->
                IF i = 1 THEN values[i] ELSE sep \o values[i]])

\* the number of leading spaces of a string
RECURSIVE LeadingSpaces(_)
LeadingSpaces(s) ==
    IF s = <<>> \/ s[1] # " " THEN 0 ELSE 1 + LeadingSpaces(Tail(s))

---------------------------------------------------------------------------
(* Tokens, statements and the documents explored *)

Tok(t, v) == [type |-> t, value |-> v]

StructuralTokens == {"EOL", "SEPARATOR", "OLD_FOR_INDENT"}

SettingTokens == {"LIBRARY", "RESOURCE", "TAGS", "SETUP", "DOCUMENTATION"}

Stmt(type, role, lines) ==
    [node |-> "Statement", type |-> type, role |-> role, lines |-> lines]

\* a parsed line: the tokens separated by 4-space separators, ended by EOL
RawLine(toks) ==
    [i \in 1..(2 * Len(toks)) |->
        IF i = 2 * Len(toks) THEN Tok("EOL", <<"\n">>)
        ELSE IF i % 2 = 1 THEN toks[(i + 1) \div 2]
        ELSE Tok("SEPARATOR", Spaces(4))]

\* a parsed header line, whose separators are sepw spaces wide
HeaderLine(type, titles, sepw) ==
    [i \in 1..(2 * Len(titles)) |->
        IF i = 2 * Len(titles) THEN Tok("EOL", <<"\n">>)
        ELSE IF i % 2 = 1 THEN Tok(type, titles[(i + 1) \div 2])
        ELSE Tok("SEPARATOR", Spaces(sepw))]

SectionHead(type, titles, sepw) ==
    << [node |-> "Section", type |-> type],
       Stmt(type, "header", <<HeaderLine(type, titles, sepw)>>) >>

txtTestCases12 == <<"*","T","e","s","t"," ","C","a","s","e","s","*">>
txtTestCases18 == <<"*","*","*"," ","T","e","s","t"," ","C","a","s","e","s"," ","*","*","*">>
txtKeywords == <<"*","*","*"," ","K","e","y","w","o","r","d","s"," ","*","*","*">>
txtSettings == <<"*","S","e","t","t","i","n","g","s","*">>
txtVariables == <<"*","*","*"," ","V","a","r","i","a","b","l","e","s"," ","*","*","*">>
txtAction == <<"A","c","t","i","o","n">>
txtArgument == <<"A","r","g","u","m","e","n","t">>
txtShort == <<"S","h","o","r","t">>
txtName17 == [i \in 1..(NameThreshold - 1) |-> "m"]
txtName18 == [i \in 1..NameThreshold |-> "n"]
txtLog == <<"L","o","g">>
txtHello == <<"h","e","l","l","o">>
txtCatenate == <<"C","a","t","e","n","a","t","e">>
txtLogMany == <<"L","o","g"," ","M","a","n","y"," ","I","t","e","m","s">>
txtNoOperation == <<"N","o"," ","O","p","e","r","a","t","i","o","n">>
txtVarX == <<"$","{","x","}">>
txtFOR == <<"F","O","R">>
txtEND == <<"E","N","D">>

HeadTC1 == SectionHead("TESTCASE_HEADER", <<txtTestCases12>>, 4)
HeadTC2 == SectionHead("TESTCASE_HEADER", <<txtTestCases12, txtAction>>, 6)
HeadTC3 == SectionHead("TESTCASE_HEADER",
                       <<txtTestCases18, txtAction, txtArgument>>, 4)
HeadKW2 == SectionHead("KEYWORD_HEADER", <<txtKeywords, txtAction>>, 4)

CallLog ==
    Stmt("KEYWORD", "body",
         <<RawLine(<<Tok("KEYWORD", txtLog), Tok("ARGUMENT", txtHello)>>)>>)

CallTwoLines ==
    Stmt("KEYWORD", "body",
         << RawLine(<<Tok("KEYWORD", txtCatenate), Tok("ARGUMENT", <<"a">>),
                      Tok("ARGUMENT", <<"b","c","d">>)>>),
            RawLine(<<Tok("CONTINUATION", <<".",".",".">>),
                      Tok("ARGUMENT", <<"e","f","g","h","i","j">>)>>) >>)

SettingTags ==
    Stmt("TAGS", "body",
         <<RawLine(<<Tok("TAGS", <<"[","t","A","g","s"," ","]">>),
                     Tok("ARGUMENT", <<"s","m","o","k","e">>)>>)>>)

CallNoOperation ==
    Stmt("KEYWORD", "body", <<RawLine(<<Tok("KEYWORD", txtNoOperation)>>)>>)

Loop ==
    << [node |-> "ForLoop"],
       Stmt("FOR", "for_header",
            <<RawLine(<<Tok("FOR", <<":"," ","f","o","r">>),
                        Tok("VARIABLE", txtVarX),
                        Tok("FOR_SEPARATOR", <<"I","N">>),
                        Tok("ARGUMENT", <<"a","b">>)>>)>>),
       Stmt("KEYWORD", "for_body",
            <<RawLine(<<Tok("KEYWORD", txtLogMany), Tok("ARGUMENT", txtVarX)>>)>>),
       Stmt("KEYWORD", "for_body",
            <<RawLine(<<Tok("KEYWORD", txtLog), Tok("ARGUMENT", txtHello),
                        Tok("ARGUMENT", txtVarX)>>)>>),
       Stmt("END", "for_end", <<RawLine(<<Tok("END", <<"e","n","d">>)>>)>>) >>

Bodies ==
    { <<CallLog>>,
      <<CallTwoLines, SettingTags>>,
      Loop \o <<CallNoOperation>> }

Names == {txtShort, txtName17, txtName18}

Block(name, body) ==
    << [node |-> "TestOrKeyword"],
       Stmt("NAME", "name", <<RawLine(<<Tok("NAME", name)>>)>>) >> \o body

Blocks == {Block(n, b) : n \in Names, b \in Bodies}

SeqsUpTo(S, n) == UNION {[1..k -> S] : k \in 1..n}

\* documents of one test-case section with any blocks
RichDocuments ==
    {h \o Concat(bs) : h \in {HeadTC1, HeadTC2, HeadTC3},
                       bs \in SeqsUpTo(Blocks, MaxBlocks)}

SettingSection ==
    SectionHead("SETTING_HEADER", <<txtSettings>>, 4)
    \o << Stmt("LIBRARY", "body",
               <<RawLine(<<Tok("LIBRARY", <<"l","I","B","r","a","r","y">>),
                           Tok("ARGUMENT", <<"O","S">>)>>)>>) >>

VariableSection ==
    SectionHead("VARIABLE_HEADER", <<txtVariables>>, 4)
    \o << Stmt("VARIABLE", "body",
               <<RawLine(<<Tok("VARIABLE", <<"$","{","v","}">>),
                           Tok("ARGUMENT", <<"1">>)>>)>>) >>

SimpleSections ==
    { SettingSection,
      VariableSection,
      HeadTC2 \o Block(txtShort, <<CallLog>>)
              \o Block(txtName18, Loop \o <<CallNoOperation>>),
      HeadKW2 \o Block(txtShort, Loop \o <<CallNoOperation>>)
              \o Block(txtShort, <<CallLog>>),
      HeadTC1 \o Block(txtShort, <<CallLog>>) \o Block(txtShort, <<CallLog>>) }

\* documents of several sections of every kind
SectionedDocuments ==
    {Concat(ss) : ss \in SeqsUpTo(SimpleSections, MaxSections)}

Documents == RichDocuments \cup SectionedDocuments

---------------------------------------------------------------------------
(* Navigation in the document *)

\* the indices of the nodes of each kind
Statements(doc) == {j \in 1..Len(doc) : doc[j].node = "Statement"}

Sections(doc) == {j \in 1..Len(doc) : doc[j].node = "Section"}

ForLoops(doc) == {j \in 1..Len(doc) : doc[j].node = "ForLoop"}

IsForEnd(n) == n.node = "Statement" /\ n.role = "for_end"

ForEnds(doc) == {j \in 1..Len(doc) : IsForEnd(doc[j])}

\* the first index >= i among the indices S of doc, or Len + 1
NextNode(doc, i, S) ==
    LET T == {j \in S : j >= i}
    IN  IF T = {} THEN Max(i, Len(doc) + 1)
        ELSE CHOOSE j \in T : \A k \in T : j <= k

\* the index after the last node of the section that starts at node s
SectionEnd(doc, s) == NextNode(doc, s + 1, Sections(doc))

\* the index of the Section node enclosing node i
RECURSIVE SectionOf(_, _)
SectionOf(doc, i) == IF doc[i].node = "Section" THEN i ELSE SectionOf(doc, i - 1)

\* the index of the TestOrKeyword node enclosing node i, or 0
RECURSIVE BlockOf(_, _)
BlockOf(doc, i) ==
    IF i < 1 \/ doc[i].node = "Section" THEN 0
    ELSE IF doc[i].node = "TestOrKeyword" THEN i ELSE BlockOf(doc, i - 1)

\* statement.tokens: the tokens of all lines
StatementTokens(st) == Concat(st.lines)

\* section.header: the tokens of the header statement of the section at s
SectionHeader(doc, s) == StatementTokens(doc[s + 1])

---------------------------------------------------------------------------
(* Pass 1: SeparatorRemover *)

\* _add_whitespace_to_header_values over tokens k..Len, prev = index of the
\* remembered header token or 0 for None
RECURSIVE AddWhitespace(_, _, _)
AddWhitespace(toks, k, prev) ==
    IF k > Len(toks) THEN toks
    ELSE IF toks[k].type = "SEPARATOR" /\ prev # 0
         THEN AddWhitespace(
                [toks EXCEPT ![prev].value =
                    @ \o Slice(toks[k].value, 0, 0 - HeaderSeparatorTrim)],
                k + 1, prev)
    ELSE IF toks[k].type = "TESTCASE_HEADER"
         THEN AddWhitespace(toks, k + 1, k)
    ELSE AddWhitespace(toks, k + 1, 0)

RemoveStructural(toks) == SelectSeq(toks, LAMBDA t : t.type \notin StructuralTokens)

SeparatorRemoverStatement(st) ==
    LET spaced(line) == IF st.type = "TESTCASE_HEADER"
                        THEN AddWhitespace(line, 1, 0) ELSE line
    IN  [st EXCEPT !.lines =
            [l \in 1..Len(st.lines) |-> RemoveStructural(spaced(st.lines[l]))]]

SeparatorRemover_visit_Statement ==
    /\ pc = "SeparatorRemover"
    /\ LET i == NextNode(model, pos, Statements(model))
       IN  /\ i <= Len(model)
           /\ model' = [model EXCEPT ![i] = SeparatorRemoverStatement(model[i])]
           /\ pos' = i + 1
    /\ UNCHANGED <<pc, sub, counter, aligner, writer, output, stack,
                   padLog, corrected, merged, handed, rowLog, blankLog>>

---------------------------------------------------------------------------
(* Pass 2: SettingCleaner *)

CleanSettingName(name) ==
    IF strip(name) # <<>> /\ strip(name)[1] = "["
    THEN <<"[">> \o title(lower(strip(Slice(name, 1, 0 - 1)))) \o <<"]">>
    ELSE title(lower(name))

SettingCleanerStatement(st) ==
    IF st.type \in SettingTokens
    THEN [st EXCEPT !.lines[1][1].value = CleanSettingName(@)]
    ELSE st

write_SettingCleaner ==
    /\ pc = "SeparatorRemover"
    /\ NextNode(model, pos, Statements(model)) > Len(model)
    /\ pc' = "SettingCleaner"
    /\ pos' = 1
    /\ UNCHANGED <<model, sub, counter, aligner, writer, output, stack,
                   padLog, corrected, merged, handed, rowLog, blankLog>>

SettingCleaner_visit_Statement ==
    /\ pc = "SettingCleaner"
    /\ LET i == NextNode(model, pos, Statements(model))
       IN  /\ i <= Len(model)
           /\ model' = [model EXCEPT ![i] = SettingCleanerStatement(model[i])]
           /\ pos' = i + 1
    /\ UNCHANGED <<pc, sub, counter, aligner, writer, output, stack,
                   padLog, corrected, merged, handed, rowLog, blankLog>>

---------------------------------------------------------------------------
(* Pass 3: ForLoopCleaner *)

\* a cleaner that upper-cases the marker instead of replacing it
ForLoopCleanerHeader_UpperCased(st) ==
    [st EXCEPT !.lines[1][1].value = [i \in 1..Len(@) |-> ToUpper(@[i])]]

\* forloop.header[0].value = 'FOR'
ForLoopCleanerHeader(st) == [st EXCEPT !.lines[1][1].value = txtFOR]

\* forloop.end[0].value = 'END'
ForLoopCleanerEnd(st) == [st EXCEPT !.lines[1][1].value = txtEND]

write_ForLoopCleaner ==
    /\ pc = "SettingCleaner"
    /\ NextNode(model, pos, Statements(model)) > Len(model)
    /\ pc' = "ForLoopCleaner"
    /\ pos' = 1
    /\ UNCHANGED <<model, sub, counter, aligner, writer, output, stack,
                   padLog, corrected, merged, handed, rowLog, blankLog>>

ForLoopCleaner_visit_ForLoop ==
    /\ pc = "ForLoopCleaner"
    /\ LET i == NextNode(model, pos, ForLoops(model))
           e == NextNode(model, i, ForEnds(model))
       IN  /\ i <= Len(model)
           /\ model' = [model EXCEPT ![i + 1] = ForLoopCleanerHeader(@),
                                      ![e] = ForLoopCleanerEnd(@)]
           /\ pos' = e + 1
    /\ UNCHANGED <<pc, sub, counter, aligner, writer, output, stack,
                   padLog, corrected, merged, handed, rowLog, blankLog>>

---------------------------------------------------------------------------
(* Pass 4: Aligner, ColumnWidthCounter, ColumnAligner *)

NoSub == [visitor |-> "none", start |-> 0, at |-> 0, end |-> 0]

TokenLengths(toks) == [k \in 1..Len(toks) |-> Len(toks[k].value)]

\* a counter that keeps the latest length instead of the greatest
CountToken_Latest(widths, k, token) ==
    LET col == k
    IN  IF col >= Len(widths) THEN Append(widths, Len(token.value))
        ELSE [widths EXCEPT ![col + 1] = Len(token.value)]

\* lines 90-95: one token at index (0-based) k - 1 of a line
CountToken(widths, k, token) ==
    LET col == k
    IN  IF col >= Len(widths) THEN Append(widths, Len(token.value))
        ELSE IF Len(token.value) > widths[col + 1]
             THEN [widths EXCEPT ![col + 1] = Len(token.value)]
        ELSE widths

RECURSIVE CountLine(_, _, _)
CountLine(widths, line, k) ==
    IF k > Len(line) THEN widths
    ELSE CountLine(CountToken(widths, k, line[k]), line, k + 1)

RECURSIVE CountLines(_, _, _)
CountLines(widths, lines, l) ==
    IF l > Len(lines) THEN widths
    ELSE CountLines(CountLine(widths, lines[l], 1), lines, l + 1)

\* ColumnWidthCounter.visit_Statement
CounterStatement(c, st) ==
    IF st.type = "NAME"
    THEN [c EXCEPT !._name_width = Len(st.lines[1][1].value),
                   !._first_line_seen = FALSE]
    ELSE IF st.type = "TESTCASE_HEADER" THEN c
    ELSE [c EXCEPT !.widths = CountLines(c.widths, st.lines, 1),
                   !._first_line_seen = (Len(st.lines) > 0) \/ @]

\* Aligner.visit_Statement: line[0].value.ljust(14) on every line
AlignerStatement(st) ==
    [st EXCEPT !.lines =
        [l \in 1..Len(st.lines) |->
            [st.lines[l] EXCEPT ![1].value =
                ljust(@, SettingAndVariableNameWidth)]]]

\* a hand-over that drops the name column instead of the last one
HandedWidths_WithoutNameColumn(widths) == Slice(widths, 1, Len(widths))

\* line 110: the widths ColumnAligner is constructed with, counter.widths[:-1]
HandedWidths(widths) == Slice(widths, 0, 0 - 1)

\* lines 63-64: first_width = widths.pop(0); widths[0] = widths[0] + first_width
MergeWidths(widths) == <<widths[2] + widths[1]>> \o SubSeq(widths, 3, Len(widths))

\* a merge that ignores the indentation depth
ShouldMerge_AnyDepth(indent, line) == line[1].type = "KEYWORD"

\* line 62
ShouldMerge(indent, line) == indent > 0 /\ line[1].type = "KEYWORD"

\* a correction that is not gated by the first-data-line flag
ShouldCorrect_EveryLine(line_pos, seen, name_len) ==
    line_pos = 0 /\ name_len < NameThreshold

\* a correction whose threshold includes names of 18 characters
ShouldCorrect_Inclusive(line_pos, seen, name_len) ==
    line_pos = 0 /\ ~seen /\ name_len <= NameThreshold

\* line 67-68
ShouldCorrect(line_pos, seen, name_len) ==
    line_pos = 0 /\ ~seen /\ name_len < NameThreshold

\* a padding that cuts an overrunning token back to its column
Padded_Truncating(exp_pos, line_pos, value) ==
    IF exp_pos < line_pos THEN Slice(value, line_pos - exp_pos, Len(value))
    ELSE Spaces(exp_pos - line_pos) \o value

\* line 71: (exp_pos - line_pos) * ' ' + token.value
Padded(exp_pos, line_pos, value) == Spaces(exp_pos - line_pos) \o value

\* lines 65-72: the tokens k.. of a line paired with the widths; s holds the
\* locals line_pos, exp_pos, the flag, the line as padded so far, and a record
\* of the locals at every token
RECURSIVE AlignTokens(_, _, _, _, _)
AlignTokens(line, widths, name_len, k, s) ==
    IF k > Len(line) \/ k > Len(widths) THEN s
    ELSE LET exp1 == s.exp_pos + widths[k]
             fire == ShouldCorrect(s.line_pos, s.seen, name_len)
             exp2 == IF fire THEN exp1 - name_len ELSE exp1
             value == Padded(exp2, s.line_pos, line[k].value)
         IN  AlignTokens(line, widths, name_len, k + 1,
                [line_pos |-> s.line_pos + Len(value),
                 exp_pos |-> exp2,
                 seen |-> s.seen \/ fire,
                 line |-> [s.line EXCEPT ![k].value = value],
                 tokens |-> Append(s.tokens,
                              [exp_pos |-> exp2, line_pos |-> s.line_pos,
                               fired |-> fire])])

\* lines 59-72 for one line
AlignLine(line, self, seen) ==
    LET merge == ShouldMerge(self.indent, line)
        widths == IF merge THEN MergeWidths(self.widths) ELSE self.widths
        r == AlignTokens(line, widths, self._test_name_len, 1,
                 [line_pos |-> 0, exp_pos |-> 0, seen |-> seen,
                  line |-> line, tokens |-> <<>>])
    IN  [line |-> r.line, seen |-> r.seen,
         log |-> [merge |-> merge, widths |-> widths, before |-> line,
                  tokens |-> r.tokens]]

\* lines 58-72 for the lines l.. of a statement
RECURSIVE AlignLines(_, _, _, _)
AlignLines(lines, self, l, s) ==
    IF l > Len(lines) THEN s
    ELSE LET r == AlignLine(lines[l], self, s.seen)
         IN  AlignLines(lines, self, l + 1,
                [lines |-> Append(s.lines, r.line), seen |-> r.seen,
                 log |-> Append(s.log, r.log)])

AlignStatement(st, self) ==
    AlignLines(st.lines, self, 1,
               [lines |-> <<>>, seen |-> self._first_statment_seen, log |-> <<>>])

\* an alignment that takes keyword sections as well
AlignsColumns_KeywordsToo(type, header) ==
    type \in {"TESTCASE_HEADER", "KEYWORD_HEADER"} /\ Len(header) > 1

\* lines 105-106: the sections whose columns are counted and aligned
AlignsColumns(type, header) == type = "TESTCASE_HEADER" /\ Len(header) > 1

write_Aligner ==
    /\ pc = "ForLoopCleaner"
    /\ NextNode(model, pos, ForLoops(model)) > Len(model)
    /\ pc' = "Aligner"
    /\ pos' = 1
    /\ UNCHANGED <<model, sub, counter, aligner, writer, output, stack,
                   padLog, corrected, merged, handed, rowLog, blankLog>>

\* Aligner.visit_Section, up to the call of the visitor that walks the section
Aligner_visit_Section ==
    /\ pc = "Aligner"
    /\ sub.visitor = "none"
    /\ LET s == NextNode(model, pos, Sections(model))
           e == SectionEnd(model, s)
       IN  /\ s <= Len(model)
           /\ pos' = e
           /\ IF model[s].type \in {"SETTING_HEADER", "VARIABLE_HEADER"}
              THEN /\ sub' = [visitor |-> "Aligner", start |-> s,
                              at |-> s + 1, end |-> e]
                   /\ UNCHANGED counter
              ELSE IF AlignsColumns(model[s].type, SectionHeader(model, s))
              THEN /\ sub' = [visitor |-> "ColumnWidthCounter", start |-> s,
                              at |-> s + 1, end |-> e]
                   /\ counter' = [widths |-> TokenLengths(SectionHeader(model, s)),
                                  _name_width |-> 0, _first_line_seen |-> FALSE]
              ELSE UNCHANGED <<sub, counter>>
    /\ UNCHANGED <<model, pc, aligner, writer, output, stack,
                   padLog, corrected, merged, handed, rowLog, blankLog>>

Aligner_visit_Statement ==
    /\ pc = "Aligner"
    /\ sub.visitor = "Aligner"
    /\ LET i == NextNode(model, sub.at, Statements(model))
       IN  /\ i < sub.end
           /\ model' = [model EXCEPT ![i] = AlignerStatement(model[i])]
           /\ sub' = [sub EXCEPT !.at = i + 1]
    /\ UNCHANGED <<pc, pos, counter, aligner, writer, output, stack,
                   padLog, corrected, merged, handed, rowLog, blankLog>>

ColumnWidthCounter_visit_Statement ==
    /\ pc = "Aligner"
    /\ sub.visitor = "ColumnWidthCounter"
    /\ LET i == NextNode(model, sub.at, Statements(model))
       IN  /\ i < sub.end
           /\ counter' = CounterStatement(counter, model[i])
           /\ sub' = [sub EXCEPT !.at = i + 1]
    /\ UNCHANGED <<model, pc, pos, aligner, writer, output, stack,
                   padLog, corrected, merged, handed, rowLog, blankLog>>

\* line 110: ColumnAligner(counter.widths[:-1]).visit(section)
Aligner_new_ColumnAligner ==
    /\ pc = "Aligner"
    /\ sub.visitor = "ColumnWidthCounter"
    /\ NextNode(model, sub.at, Statements(model)) >= sub.end
    /\ aligner' = [widths |-> HandedWidths(counter.widths), _test_name_len |-> 0,
                   indent |-> 0, _first_statment_seen |-> FALSE]
    /\ handed' = Append(handed, [section |-> sub.start, widths |-> counter.widths])
    /\ sub' = [sub EXCEPT !.visitor = "ColumnAligner", !.at = sub.start + 1]
    /\ UNCHANGED <<model, pc, pos, counter, writer, output, stack,
                   padLog, corrected, merged, rowLog, blankLog>>

\* ColumnAligner.visit_ForLoop has visited the loop's end and not returned
ColumnAlignerLoopDone ==
    /\ stack # <<>>
    /\ stack[Len(stack)] = "ForLoop"
    /\ IsForEnd(model[sub.at - 1])

ColumnAligner_visit_TestOrKeyword ==
    /\ pc = "Aligner"
    /\ sub.visitor = "ColumnAligner"
    /\ sub.at < sub.end
    /\ ~ColumnAlignerLoopDone
    /\ model[sub.at].node = "TestOrKeyword"
    /\ aligner' = [aligner EXCEPT !._first_statment_seen = FALSE]
    /\ sub' = [sub EXCEPT !.at = @ + 1]
    /\ UNCHANGED <<model, pc, pos, counter, writer, output, stack,
                   padLog, corrected, merged, handed, rowLog, blankLog>>

\* ColumnAligner.visit_ForLoop, line 48
ColumnAligner_visit_ForLoop ==
    /\ pc = "Aligner"
    /\ sub.visitor = "ColumnAligner"
    /\ sub.at < sub.end
    /\ ~ColumnAlignerLoopDone
    /\ model[sub.at].node = "ForLoop"
    /\ aligner' = [aligner EXCEPT !.indent = @ + 1]
    /\ stack' = Append(stack, "ForLoop")
    /\ sub' = [sub EXCEPT !.at = @ + 1]
    /\ UNCHANGED <<model, pc, pos, counter, writer, output,
                   padLog, corrected, merged, handed, rowLog, blankLog>>

\* ColumnAligner.visit_ForLoop, line 50
ColumnAligner_return_ForLoop ==
    /\ pc = "Aligner"
    /\ sub.visitor = "ColumnAligner"
    /\ ColumnAlignerLoopDone
    /\ aligner' = [aligner EXCEPT !.indent = @ - 1]
    /\ stack' = SubSeq(stack, 1, Len(stack) - 1)
    /\ UNCHANGED <<model, pc, pos, sub, counter, writer, output,
                   padLog, corrected, merged, handed, rowLog, blankLog>>

ColumnAligner_visit_Statement ==
    /\ pc = "Aligner"
    /\ sub.visitor = "ColumnAligner"
    /\ sub.at < sub.end
    /\ ~ColumnAlignerLoopDone
    /\ model[sub.at].node = "Statement"
    /\ LET i == sub.at
           st == model[i]
           r == AlignStatement(st, aligner)
       IN  IF st.type = "TESTCASE_HEADER"
           THEN UNCHANGED <<model, aligner, padLog, corrected, merged>>
           ELSE IF st.type = "NAME"
           THEN /\ aligner' = [aligner EXCEPT
                                  !._test_name_len = Len(st.lines[1][1].value)]
                /\ UNCHANGED <<model, padLog, corrected, merged>>
           ELSE /\ model' = [model EXCEPT ![i].lines = r.lines]
                /\ aligner' = [aligner EXCEPT !._first_statment_seen = r.seen]
                /\ padLog' = [node |-> i, indent |-> aligner.indent,
                              name_len |-> aligner._test_name_len, lines |-> r.log]
                /\ corrected' = corrected \cup UNION
                      {{<<i, l, k>> : k \in {j \in 1..Len(r.log[l].tokens) :
                                                r.log[l].tokens[j].fired}} :
                       l \in 1..Len(r.log)}
                /\ merged' = merged \cup
                      {<<i, l>> : l \in {m \in 1..Len(r.log) : r.log[m].merge}}
    /\ sub' = [sub EXCEPT !.at = @ + 1]
    /\ UNCHANGED <<pc, pos, counter, writer, output, stack, handed,
                   rowLog, blankLog>>

\* Aligner.visit_Section returns: the visitor walking the section has finished
Aligner_return_Section ==
    /\ pc = "Aligner"
    /\ \/ /\ sub.visitor = "ColumnAligner"
          /\ sub.at >= sub.end
          /\ ~ColumnAlignerLoopDone
       \/ /\ sub.visitor = "Aligner"
          /\ NextNode(model, sub.at, Statements(model)) >= sub.end
    /\ sub' = NoSub
    /\ UNCHANGED <<model, pc, pos, counter, aligner, writer, output, stack,
                   padLog, corrected, merged, handed, rowLog, blankLog>>

---------------------------------------------------------------------------
(* Pass 5: Writer *)

SeparatingSpaces == {2, 4}

\* Writer.__init__
NewWriter(pipes, txt_separating_spaces) ==
    [indent |-> 0,
     pipes |-> pipes,
     separator |-> IF ~pipes THEN Spaces(txt_separating_spaces)
                   ELSE <<" ", "|", " ">>,
     indent_marker |-> IF ~pipes THEN Spaces(txt_separating_spaces)
                       ELSE <<" ", " ", " ", "|", " ">>,
     _section_seen |-> FALSE,
     _test_or_kw_seen |-> FALSE,
     _test_case_section_headers |-> [is |-> "None", list |-> <<>>]]

\* Python truth value of _test_case_section_headers (None, False or a list)
Truthy(v) == v.is = "list" /\ v.list # <<>>

\* lines 204-211: the row of one line
Row(line, w) ==
    LET indent == Concat([i \in 1..w.indent |-> w.indent_marker])
        values == [k \in 1..Len(line) |-> line[k].value]
        row == indent \o join(w.separator, values)
    IN  IF w.pipes THEN <<"|", " ">> \o row \o <<" ", "|">> ELSE rstrip(row)

\* lines 205-214: what _write_statement writes for the lines l.. of a statement
RECURSIVE WriteLines(_, _, _, _)
WriteLines(lines, w, write_newline, l) ==
    IF l > Len(lines) THEN <<>>
    ELSE <<Row(lines[l], w)>>
         \o (IF write_newline THEN << <<"\n">> >> ELSE <<>>)
         \o WriteLines(lines, w, write_newline, l + 1)

WriteStatement(st, w, write_newline) == WriteLines(st.lines, w, write_newline, 1)

\* lines 188-190
WriteNewlineAfterName(w, name) ==
    ~Truthy(w._test_case_section_headers)
        \/ Len(name.lines[1][1].value) >= NameThreshold

\* the printed column reached by the output: the characters after the last newline
RECURSIVE Column(_)
Column(out) ==
    IF out = <<>> \/ out[Len(out)] = <<"\n">> THEN 0
    ELSE Len(out[Len(out)]) + Column(SubSeq(out, 1, Len(out) - 1))

\* per row of a statement: where in the output it is written, and the printed
\* column at which it starts
RowRecords(i, st, w, write_newline, out) ==
    [l \in 1..Len(st.lines) |->
        LET before == out \o WriteLines(SubSeq(st.lines, 1, l - 1), w,
                                         write_newline, 1)
        IN  [node |-> i, line |-> l, indent |-> w.indent,
             newline |-> write_newline,
             at |-> Len(before) + 1, col |-> Column(before)]]

Top(stk) == IF stk = <<>> THEN "none" ELSE stk[Len(stk)]

Pop(stk) == SubSeq(stk, 1, Len(stk) - 1)

\* line 228: Writer(self.config)
write_Writer ==
    /\ pc = "Aligner"
    /\ sub.visitor = "none"
    /\ NextNode(model, pos, Sections(model)) > Len(model)
    /\ \E pipes \in BOOLEAN, n \in SeparatingSpaces :
          writer' = NewWriter(pipes, n)
    /\ pc' = "Writer"
    /\ pos' = 1
    /\ UNCHANGED <<model, sub, counter, aligner, output, stack,
                   padLog, corrected, merged, handed, rowLog, blankLog>>

\* Writer.visit_Section, lines 174-180
Writer_visit_Section ==
    /\ pc = "Writer"
    /\ stack = <<>>
    /\ pos <= Len(model)
    /\ model[pos].node = "Section"
    /\ output' = IF writer._section_seen THEN Append(output, <<"\n">>) ELSE output
    /\ blankLog' = IF writer._section_seen THEN Append(blankLog, pos) ELSE blankLog
    /\ writer' = IF model[pos].type = "TESTCASE_HEADER"
                     /\ Len(SectionHeader(model, pos)) > 1
                  THEN [writer EXCEPT !._test_case_section_headers =
                          [is |-> "list",
                           list |-> TokenLengths(SectionHeader(model, pos))]]
                  ELSE writer
    /\ stack' = <<"Section">>
    /\ pos' = pos + 1
    /\ UNCHANGED <<model, pc, sub, counter, aligner,
                   padLog, corrected, merged, handed, rowLog>>

\* visit_Section without line 183: the header widths outlive their section
Writer_return_Section_KeepingHeaders ==
    /\ pc = "Writer"
    /\ Top(stack) = "Section"
    /\ IF pos > Len(model) THEN TRUE ELSE model[pos].node = "Section"
    /\ writer' = [writer EXCEPT !._section_seen = TRUE,
                                !._test_or_kw_seen = FALSE]
    /\ stack' = Pop(stack)
    /\ UNCHANGED <<model, pc, pos, sub, counter, aligner, output,
                   padLog, corrected, merged, handed, rowLog, blankLog>>

\* visit_Section without line 182: the block flag outlives its section
Writer_return_Section_KeepingBlockSeen ==
    /\ pc = "Writer"
    /\ Top(stack) = "Section"
    /\ IF pos > Len(model) THEN TRUE ELSE model[pos].node = "Section"
    /\ writer' = [writer EXCEPT !._section_seen = TRUE,
                                !._test_case_section_headers =
                                    [is |-> "False", list |-> <<>>]]
    /\ stack' = Pop(stack)
    /\ UNCHANGED <<model, pc, pos, sub, counter, aligner, output,
                   padLog, corrected, merged, handed, rowLog, blankLog>>

\* Writer.visit_Section, lines 181-183
Writer_return_Section ==
    /\ pc = "Writer"
    /\ Top(stack) = "Section"
    /\ IF pos > Len(model) THEN TRUE ELSE model[pos].node = "Section"
    /\ writer' = [writer EXCEPT !._section_seen = TRUE,
                                !._test_or_kw_seen = FALSE,
                                !._test_case_section_headers =
                                    [is |-> "False", list |-> <<>>]]
    /\ stack' = Pop(stack)
    /\ UNCHANGED <<model, pc, pos, sub, counter, aligner, output,
                   padLog, corrected, merged, handed, rowLog, blankLog>>

\* Writer.visit_Statement
Writer_visit_Statement ==
    /\ pc = "Writer"
    /\ pos <= Len(model)
    /\ model[pos].node = "Statement"
    /\ model[pos].role # "for_end"
    /\ output' = output \o WriteStatement(model[pos], writer, TRUE)
    /\ rowLog' = rowLog \o RowRecords(pos, model[pos], writer, TRUE, output)
    /\ pos' = pos + 1
    /\ UNCHANGED <<model, pc, sub, counter, aligner, writer, stack,
                   padLog, corrected, merged, handed, blankLog>>

\* Writer.visit_TestOrKeyword, lines 186-191
Writer_visit_TestOrKeyword ==
    /\ pc = "Writer"
    /\ pos <= Len(model)
    /\ model[pos].node = "TestOrKeyword"
    /\ Top(stack) = "Section"
    /\ LET name == model[pos + 1]
           blank == IF writer._test_or_kw_seen THEN << <<"\n">> >> ELSE <<>>
           write_newline == WriteNewlineAfterName(writer, name)
       IN  /\ output' = output \o blank \o WriteStatement(name, writer, write_newline)
           /\ rowLog' = rowLog \o RowRecords(pos + 1, name, writer, write_newline,
                                              output \o blank)
           /\ blankLog' = IF writer._test_or_kw_seen THEN Append(blankLog, pos)
                           ELSE blankLog
    /\ writer' = [writer EXCEPT !.indent = @ + 1]
    /\ stack' = Append(stack, "TestOrKeyword")
    /\ pos' = pos + 2
    /\ UNCHANGED <<model, pc, sub, counter, aligner,
                   padLog, corrected, merged, handed>>

\* Writer.visit_TestOrKeyword, lines 193-194
Writer_return_TestOrKeyword ==
    /\ pc = "Writer"
    /\ Top(stack) = "TestOrKeyword"
    /\ IF pos > Len(model) THEN TRUE
       ELSE model[pos].node \in {"Section", "TestOrKeyword"}
    /\ writer' = [writer EXCEPT !.indent = @ - 1, !._test_or_kw_seen = TRUE]
    /\ stack' = Pop(stack)
    /\ UNCHANGED <<model, pc, pos, sub, counter, aligner, output,
                   padLog, corrected, merged, handed, rowLog, blankLog>>

\* Writer.visit_ForLoop, lines 197-198
Writer_visit_ForLoop ==
    /\ pc = "Writer"
    /\ pos <= Len(model)
    /\ model[pos].node = "ForLoop"
    /\ output' = output \o WriteStatement(model[pos + 1], writer, TRUE)
    /\ rowLog' = rowLog \o RowRecords(pos + 1, model[pos + 1], writer, TRUE, output)
    /\ writer' = [writer EXCEPT !.indent = @ + 1]
    /\ stack' = Append(stack, "ForLoop")
    /\ pos' = pos + 2
    /\ UNCHANGED <<model, pc, sub, counter, aligner,
                   padLog, corrected, merged, handed, blankLog>>

\* Writer.visit_ForLoop, lines 200-201
Writer_return_ForLoop ==
    /\ pc = "Writer"
    /\ Top(stack) = "ForLoop"
    /\ pos <= Len(model)
    /\ IsForEnd(model[pos])
    /\ LET w == [writer EXCEPT !.indent = @ - 1]
       IN  /\ writer' = w
           /\ output' = output \o WriteStatement(model[pos], w, TRUE)
           /\ rowLog' = rowLog \o RowRecords(pos, model[pos], w, TRUE, output)
    /\ stack' = Pop(stack)
    /\ pos' = pos + 1
    /\ UNCHANGED <<model, pc, sub, counter, aligner,
                   padLog, corrected, merged, handed, blankLog>>

\* _DataFileWriter.write returns
write_return ==
    /\ pc = "Writer"
    /\ stack = <<>>
    /\ pos > Len(model)
    /\ pc' = "done"
    /\ UNCHANGED <<model, pos, sub, counter, aligner, writer, output, stack,
                   padLog, corrected, merged, handed, rowLog, blankLog>>

---------------------------------------------------------------------------
(* The specification *)

Init ==
    /\ model \in Documents
    /\ pc = "SeparatorRemover"
    /\ pos = 1
    /\ sub = NoSub
    /\ counter = [widths |-> <<>>, _name_width |-> 0, _first_line_seen |-> FALSE]
    /\ aligner = [widths |-> <<>>, _test_name_len |-> 0, indent |-> 0,
                  _first_statment_seen |-> FALSE]
    /\ writer = NewWriter(FALSE, 4)
    /\ output = <<>>
    /\ stack = <<>>
    /\ padLog = [node |-> 0, indent |-> 0, name_len |-> 0, lines |-> <<>>]
    /\ corrected = {}
    /\ merged = {}
    /\ handed = <<>>
    /\ rowLog = <<>>
    /\ blankLog = <<>>

Next ==
    \/ SeparatorRemover_visit_Statement
    \/ write_SettingCleaner
    \/ SettingCleaner_visit_Statement
    \/ write_ForLoopCleaner
    \/ ForLoopCleaner_visit_ForLoop
    \/ write_Aligner
    \/ Aligner_visit_Section
    \/ Aligner_visit_Statement
    \/ ColumnWidthCounter_visit_Statement
    \/ Aligner_new_ColumnAligner
    \/ ColumnAligner_visit_TestOrKeyword
    \/ ColumnAligner_visit_ForLoop
    \/ ColumnAligner_return_ForLoop
    \/ ColumnAligner_visit_Statement
    \/ Aligner_return_Section
    \/ write_Writer
    \/ Writer_visit_Section
    \/ Writer_return_Section
    \/ Writer_visit_Statement
    \/ Writer_visit_TestOrKeyword
    \/ Writer_return_TestOrKeyword
    \/ Writer_visit_ForLoop
    \/ Writer_return_ForLoop
    \/ write_return

Spec == Init /\ [][Next]_vars

---------------------------------------------------------------------------
(* Notions the properties are stated with *)

NL == <<"\n">>

\* the number of header columns of the section at s, whatever pass is running
HeaderColumns(doc, s) == Len(RemoveStructural(SectionHeader(doc, s)))

\* a test-case section with more than one header column
MultiColumnTestCases(doc, s) ==
    doc[s].type = "TESTCASE_HEADER" /\ HeaderColumns(doc, s) > 1

TestOrKeywords(doc) == {j \in 1..Len(doc) : doc[j].node = "TestOrKeyword"}

\* the name token of the block at b
BlockName(doc, b) == doc[b + 1].lines[1][1].value

\* the first statement of the body of the block at b (a loop's header included)
FirstDataStatement(doc, b) == NextNode(doc, b + 2, Statements(doc))

\* the total length of the first k - 1 tokens of a line
LinePosAt(line, k) == SumTo([j \in 1..Len(line) |-> Len(line[j].value)], k - 1)

\* the row of rowLog written for line l of node i, or 0
RowOf(i, l) ==
    LET S == {n \in 1..Len(rowLog) : rowLog[n].node = i /\ rowLog[n].line = l}
    IN  IF S = {} THEN 0 ELSE CHOOSE n \in S : TRUE

---------------------------------------------------------------------------
(* C1: Column Aligner padding rule *)

\* the sum of the widths consumed up to token k of line l of the statement
\* aligned last, less the block-name length if the correction ran on the line
C1_ExpPos(l, k) ==
    LET L == padLog.lines[l]
    IN  SumTo(L.widths, Min(k, Len(L.widths)))
        - (IF \E j \in 1..k : <<padLog.node, l, j>> \in corrected
           THEN padLog.name_len ELSE 0)

\* C1: every token of every line of an aligned statement becomes exactly
\* max(expPos - linePos, 0) spaces followed by its text as it was: the padding
\* is never negative and the text is never truncated or altered.
C1_PaddingRule ==
    padLog.node # 0 =>
        \A l \in 1..Len(padLog.lines) :
            LET old == padLog.lines[l].before
                new == model[padLog.node].lines[l]
            IN  /\ Len(new) = Len(old)
                /\ \A k \in 1..Len(old) :
                      /\ new[k].type = old[k].type
                      /\ new[k].value =
                            Spaces(Max(C1_ExpPos(l, k) - LinePosAt(new, k), 0))
                            \o old[k].value

\* a token that starts after its expected position (an earlier token of the
\* line overran its column) and is left as it was
C1_Overrun ==
    /\ padLog.node # 0
    /\ \E l \in 1..Len(padLog.lines) :
          LET old == padLog.lines[l].before
              new == model[padLog.node].lines[l]
          IN  \E k \in 2..Min(Len(old), Len(padLog.lines[l].widths)) :
                /\ Len(old[k - 1].value) > padLog.lines[l].widths[k]
                /\ C1_ExpPos(l, k) < LinePosAt(new, k)
                /\ new[k].value = old[k].value

---------------------------------------------------------------------------
(* C2: newline after the name line of a block *)

NameRows == {n \in 1..Len(rowLog) : model[rowLog[n].node].role = "name"}

\* C2: the newline after a block's name line is suppressed exactly when the
\* block is in a test-case section with more than one header column and its
\* name is shorter than 18; otherwise the name row is followed by a newline.
C2_NameLineNewline ==
    \A n \in NameRows :
        LET r == rowLog[n]
            s == SectionOf(model, r.node)
            suppress == /\ MultiColumnTestCases(model, s)
                        /\ Len(model[r.node].lines[1][1].value) < NameThreshold
        IN  /\ r.newline <=> ~suppress
            /\ r.newline => output[r.at + 1] = NL
            /\ (~r.newline /\ Len(output) > r.at) => output[r.at + 1] # NL

\* a suppressed newline, and in a later section a short name with its newline
C2_SuppressedThenWritten ==
    \E n1 \in NameRows, n2 \in NameRows :
        /\ ~rowLog[n1].newline
        /\ rowLog[n2].newline
        /\ SectionOf(model, rowLog[n2].node) > SectionOf(model, rowLog[n1].node)
        /\ Len(model[rowLog[n2].node].lines[1][1].value) < NameThreshold

---------------------------------------------------------------------------
(* C3: loop markers *)

LoopHeaderMarker(doc, i) == doc[i + 1].lines[1][1].value

LoopEndMarker(doc, i) == doc[NextNode(doc, i, ForEnds(doc))].lines[1][1].value

\* C3 as claimed: when write returns, the first token of every loop header
\* is exactly FOR and the first token of every loop end is exactly END,
\* whatever section the loop is in.
C3_LoopMarkersExact ==
    pc = "done" =>
        \A i \in ForLoops(model) :
            /\ LoopHeaderMarker(model, i) = txtFOR
            /\ LoopEndMarker(model, i) = txtEND

\* C3 as amended: from the end of the ForLoopCleaner pass on, the first token
\* of every loop header is FOR and that of every loop end is END, preceded by
\* nothing but spaces, and by no space at all outside the test-case sections
\* with more than one header column; the rows written for them in the
\* space-separated dialect start, after their indentation, with FOR and END.
C3_LoopMarkersPadded ==
    pc \in {"Aligner", "Writer", "done"} =>
        \A i \in ForLoops(model) :
            LET h == LoopHeaderMarker(model, i)
                e == LoopEndMarker(model, i)
                rh == RowOf(i + 1, 1)
                re == RowOf(NextNode(model, i, ForEnds(model)), 1)
            IN  /\ h = Spaces(LeadingSpaces(h)) \o txtFOR
                /\ e = Spaces(LeadingSpaces(e)) \o txtEND
                /\ ~MultiColumnTestCases(model, SectionOf(model, i))
                      => h = txtFOR /\ e = txtEND
                /\ (rh # 0 /\ ~writer.pipes)
                      => SubSeq(lstrip(output[rowLog[rh].at]), 1, 4)
                            = txtFOR \o <<" ">>
                /\ (re # 0 /\ ~writer.pipes)
                      => lstrip(output[rowLog[re].at]) = txtEND

\* a document written with a padded loop in a multi-column test-case section
\* and an unpadded loop in another section
C3_PaddedAndUnpadded ==
    /\ pc = "done"
    /\ \E i \in ForLoops(model), j \in ForLoops(model) :
          /\ MultiColumnTestCases(model, SectionOf(model, i))
          /\ LeadingSpaces(LoopHeaderMarker(model, i)) > 0
          /\ LeadingSpaces(LoopEndMarker(model, i)) > 0
          /\ ~MultiColumnTestCases(model, SectionOf(model, j))
          /\ LoopHeaderMarker(model, j) = txtFOR

---------------------------------------------------------------------------
(* C4: blank lines *)

\* the sections but the first, and the blocks but the first of their section
C4_BlankBefore ==
    {s \in Sections(model) : \E t \in Sections(model) : t < s}
    \cup {b \in TestOrKeywords(model) :
            \E a \in TestOrKeywords(model) :
                a < b /\ SectionOf(model, a) = SectionOf(model, b)}

\* C4: the renderer writes one blank-line newline before every section but
\* the first and before every block but the first of its own section, and
\* no other: the output holds two newlines before the first row of such a
\* node and a single one (or nothing) before the first row of any other.
C4_BlankLines ==
    pc \in {"Writer", "done"} =>
        /\ \A n \in 1..Len(blankLog) : \A m \in 1..Len(blankLog) :
              blankLog[n] = blankLog[m] => n = m
        /\ {blankLog[n] : n \in 1..Len(blankLog)}
              = {x \in C4_BlankBefore : x < pos}
        /\ \A x \in Sections(model) \cup TestOrKeywords(model) :
              LET n == RowOf(x + 1, 1)
                  at == rowLog[n].at
              IN  n # 0 =>
                    ((x \in C4_BlankBefore)
                        <=> (at >= 3 /\ output[at - 1] = NL /\ output[at - 2] = NL))

\* a second section with two blocks after a first section with two blocks
C4_SecondSectionBlocks ==
    /\ pc = "done"
    /\ \E a \in TestOrKeywords(model), b \in TestOrKeywords(model),
          c \in TestOrKeywords(model), d \in TestOrKeywords(model) :
          /\ a < b /\ b < c /\ c < d
          /\ SectionOf(model, a) = SectionOf(model, b)
          /\ SectionOf(model, b) < SectionOf(model, c)
          /\ SectionOf(model, c) = SectionOf(model, d)
          /\ {a, c} \cap {blankLog[n] : n \in 1..Len(blankLog)} = {}
          /\ {b, d} \subseteq {blankLog[n] : n \in 1..Len(blankLog)}

---------------------------------------------------------------------------
(* C5: scope of the multi-column alignment *)

\* how many times lines 107-110 (counter and aligner) ran for the section at s
AlignmentRuns(s) ==
    Cardinality({n \in 1..Len(handed) : handed[n].section = s})

\* C5 as claimed: the width calculator and the column aligner run once for
\* every keyword section and every test-case section whose header has more
\* than one column, and for no other section.
C5_KeywordSectionsAligned ==
    pc \in {"Writer", "done"} =>
        \A s \in Sections(model) :
            AlignmentRuns(s) =
                IF /\ model[s].type \in {"TESTCASE_HEADER", "KEYWORD_HEADER"}
                   /\ HeaderColumns(model, s) > 1
                THEN 1 ELSE 0

\* C5 as amended: the width calculator and the column aligner run once for
\* every test-case section whose header has more than one column and for no
\* other section: a keyword section is left as it was whatever its header,
\* like a test-case section with one header column, and in a settings or
\* variables section the first token of every line is left-justified to 14
\* characters and nothing else is changed.
C5_OnlyTestCaseSectionsAligned ==
    pc \in {"Writer", "done"} =>
        \A s \in Sections(model) :
            /\ AlignmentRuns(s) = IF MultiColumnTestCases(model, s) THEN 1 ELSE 0
            /\ ~MultiColumnTestCases(model, s) =>
                  \A i \in (s + 1)..(SectionEnd(model, s) - 1) :
                    model[i].node = "Statement" =>
                      \A l \in 1..Len(model[i].lines) :
                        \A k \in 1..Len(model[i].lines[l]) :
                          LET v == model[i].lines[l][k].value
                          IN  IF k = 1 /\ model[s].type \in
                                    {"SETTING_HEADER", "VARIABLE_HEADER"}
                              THEN v = ljust(strip(v), SettingAndVariableNameWidth)
                              ELSE v = strip(v)

\* a document with an aligned test-case section and a keyword section whose
\* header has more than one column
C5_KeywordSectionNextToAligned ==
    /\ pc = "done"
    /\ \E s \in Sections(model), t \in Sections(model) :
          /\ model[s].type = "KEYWORD_HEADER"
          /\ HeaderColumns(model, s) > 1
          /\ AlignmentRuns(s) = 0
          /\ AlignmentRuns(t) = 1

---------------------------------------------------------------------------
(* C6: result of the Column Width Calculator *)

MaxOf(S) == CHOOSE x \in S : \A y \in S : y <= x

\* the lines <<statement, line>> of the section the counter walks that it has
\* visited and that belong to neither a header row nor a block-name row
C6_CountedLines ==
    {p \in ((sub.start + 1)..(sub.at - 1)) \X (1..3) :
        /\ model[p[1]].node = "Statement"
        /\ model[p[1]].type \notin {"NAME", "TESTCASE_HEADER"}
        /\ p[2] <= Len(model[p[1]].lines)}

C6_Titles == TokenLengths(SectionHeader(model, sub.start))

C6_Expected ==
    LET longest == MaxOf({0} \cup {Len(model[p[1]].lines[p[2]]) : p \in C6_CountedLines})
        n == Max(Len(C6_Titles), longest + 1)
    IN  [c \in 1..n |->
            IF c = 1 THEN C6_Titles[1]
            ELSE MaxOf((IF c <= Len(C6_Titles) THEN {C6_Titles[c]} ELSE {})
                       \cup {Len(model[p[1]].lines[p[2]][c - 1].value) :
                               p \in {q \in C6_CountedLines :
                                        Len(model[q[1]].lines[q[2]]) >= c - 1}})]

C6_CounterResult ==
    sub.visitor = "ColumnWidthCounter" => counter.widths = C6_Expected

\* C6: at every step of the width calculator the array is, at column 0, the
\* length of the first header title and, at every column c >= 1, the maximum
\* of the header title length at c and of the lengths of the tokens at line
\* position c - 1 of the data lines visited, with one entry per column up to
\* the longest such line plus one; and no entry ever decreases.
C6_WidthsAreColumnMaxima ==
    [][/\ C6_CounterResult'
       /\ (sub.visitor = "ColumnWidthCounter" /\ sub'.visitor = "ColumnWidthCounter")
            => /\ Len(counter'.widths) >= Len(counter.widths)
               /\ \A c \in 1..Len(counter.widths) :
                     counter'.widths[c] >= counter.widths[c]]_vars

\* the counter has walked a section where a line is longer than the header,
\* a title is the widest of its column and a token is wider than its title
C6_TitlesAndTokensCounted ==
    /\ sub.visitor = "ColumnWidthCounter"
    /\ NextNode(model, sub.at, Statements(model)) >= sub.end
    /\ Len(counter.widths) > Len(C6_Titles)
    /\ \E c \in 2..Len(C6_Titles) : counter.widths[c] > C6_Titles[c]
    /\ \E c \in 2..Len(C6_Titles) : counter.widths[c] = C6_Titles[c]
    /\ counter.widths[1] = C6_Titles[1]

---------------------------------------------------------------------------
(* C7: hand-over from the Width Calculator to the Column Aligner *)

LastHanded == handed[Len(handed)].widths

\* C7 as claimed: the Column Aligner's width list is the calculator's final
\* array without its column-0 entry, every other entry kept.
C7_NameColumnExcluded ==
    sub.visitor = "ColumnAligner" => aligner.widths = Tail(LastHanded)

\* C7 as amended: the Column Aligner's width list (which it copies for each
\* logical line) is the calculator's final array without its last entry,
\* every other entry, the name column's at column 0 included, kept.
C7_LastColumnExcluded ==
    sub.visitor = "ColumnAligner" =>
        /\ LastHanded = counter.widths
        /\ handed[Len(handed)].section = sub.start
        /\ aligner.widths = SubSeq(LastHanded, 1, Len(LastHanded) - 1)
        /\ padLog.node > sub.start =>
              \A l \in 1..Len(padLog.lines) :
                  ~padLog.lines[l].merge => padLog.lines[l].widths = aligner.widths

\* the aligner has aligned a statement with widths of which the first and the
\* last differ
C7_HandedWidthsUsed ==
    /\ sub.visitor = "ColumnAligner"
    /\ padLog.node > sub.start
    /\ Len(LastHanded) >= 3
    /\ LastHanded[1] # LastHanded[Len(LastHanded)]
    /\ \E l \in 1..Len(padLog.lines) : ~padLog.lines[l].merge

---------------------------------------------------------------------------
(* C8: short-name correction *)

\* C8: the block-name length is subtracted only on the first token of the
\* first line of the first statement of a block's body, only when the name
\* is shorter than 18, and at most once in a block; the flag is reset at
\* every block, so that every block of an aligned section whose name is
\* shorter than 18 gets its correction.
C8_ShortNameCorrection ==
    /\ \A t \in corrected :
          LET b == BlockOf(model, t[1])
          IN  /\ b # 0
              /\ t[1] = FirstDataStatement(model, b)
              /\ t[2] = 1
              /\ t[3] = 1
              /\ Len(BlockName(model, b)) < NameThreshold
    /\ \A t \in corrected : \A u \in corrected :
          BlockOf(model, t[1]) = BlockOf(model, u[1]) => t = u
    /\ pc \in {"Writer", "done"} =>
          \A b \in TestOrKeywords(model) :
              (/\ MultiColumnTestCases(model, SectionOf(model, b))
               /\ Len(BlockName(model, b)) < NameThreshold)
                  => <<FirstDataStatement(model, b), 1, 1>> \in corrected

\* the correction ran in two blocks of one section, and a later statement of
\* the second block has been aligned
C8_CorrectedInTwoBlocks ==
    /\ sub.visitor = "ColumnAligner"
    /\ \E t \in corrected, u \in corrected :
          /\ BlockOf(model, t[1]) < BlockOf(model, u[1])
          /\ SectionOf(model, t[1]) = SectionOf(model, u[1])
          /\ padLog.node > u[1]

---------------------------------------------------------------------------
(* C9: indentation depth and merge rule *)

LoopRoles == {"for_header", "for_body", "for_end"}

\* the merge rule, for the statement aligned last
C9_MergeRule ==
    \A l \in 1..Len(padLog.lines) :
        LET L == padLog.lines[l]
        IN  /\ L.merge <=> (padLog.indent > 0 /\ L.before[1].type = "KEYWORD")
            /\ L.widths =
                  IF L.merge
                  THEN <<aligner.widths[1] + aligner.widths[2]>>
                       \o SubSeq(aligner.widths, 3, Len(aligner.widths))
                  ELSE aligner.widths

\* C9 as claimed: the depth is greater than 0 exactly while the aligner
\* processes a statement of a loop's body, and the first two widths are
\* merged exactly when the depth is greater than 0 and the line starts with a
\* keyword-call token, the shared width list being left unchanged.
C9_DepthOnlyInLoopBody ==
    (sub.visitor = "ColumnAligner" /\ padLog.node > sub.start) =>
        /\ padLog.indent > 0 <=> model[padLog.node].role = "for_body"
        /\ C9_MergeRule
        /\ aligner.widths = SubSeq(LastHanded, 1, Len(LastHanded) - 1)

\* C9 as amended: the depth is greater than 0 exactly while the aligner
\* processes a statement of a loop, its header and its end as well as its
\* body; it is 0 outside any loop and is back to its previous value after
\* the loop; the first two widths are merged exactly when the depth is
\* greater than 0 and the line starts with a keyword-call token (which only a
\* body statement does), the shared width list being left unchanged.
C9_DepthInWholeLoop ==
    (sub.visitor = "ColumnAligner" /\ padLog.node > sub.start) =>
        /\ padLog.indent > 0 <=> model[padLog.node].role \in LoopRoles
        /\ aligner.indent = Len(stack)
        /\ stack = <<>> \/ stack = <<"ForLoop">>
        /\ C9_MergeRule
        /\ \A p \in merged : model[p[1]].role = "for_body"
        /\ aligner.widths = SubSeq(LastHanded, 1, Len(LastHanded) - 1)

\* a statement after a loop has been aligned at depth 0, lines of the loop's
\* body having been merged
C9_AfterLoop ==
    /\ sub.visitor = "ColumnAligner"
    /\ padLog.node > sub.start
    /\ padLog.indent = 0
    /\ model[padLog.node].role = "body"
    /\ \E p \in merged : p[1] < padLog.node /\ p[1] > sub.start

---------------------------------------------------------------------------
(* C10: the aligner and the renderer agree on the first row of a block *)

\* the rows, in rowLog, of the body statements of the blocks of test-case
\* sections with more than one header column
C10_DataRows ==
    {n \in 1..Len(rowLog) :
        /\ model[rowLog[n].node].role \in LoopRoles \cup {"body"}
        /\ MultiColumnTestCases(model, SectionOf(model, rowLog[n].node))}

\* the printed column at which the first token's text starts in row n
C10_Start(n) == rowLog[n].col + LeadingSpaces(output[rowLog[n].at])

\* C10: in the space-separated dialect, the line that got the short-name
\* correction is exactly the line printed on the row of the block name; a
\* line printed on its own row never has the name length subtracted; and
\* outside loop bodies the first token of every line starts at the first
\* column width plus the indentation marker, the line on the name's row
\* included when the name is not longer than that width.
C10_FirstRowAgreement ==
    (pc \in {"Writer", "done"} /\ ~writer.pipes) =>
        \A n \in C10_DataRows :
            LET r == rowLog[n]
                b == BlockOf(model, r.node)
                s == SectionOf(model, r.node)
                w0 == Len(SectionHeader(model, s)[1].value)
            IN  /\ (<<r.node, r.line, 1>> \in corrected) <=> (r.col > 0)
                /\ (r.col > 0) =>
                      (/\ rowLog[n - 1].node = b + 1
                       /\ r.col = Len(BlockName(model, b))
                       /\ ~rowLog[n - 1].newline)
                /\ ((model[r.node].role # "for_body")
                        /\ ((r.col > 0) => (Len(BlockName(model, b)) <= w0)))
                      => (C10_Start(n) = w0 + Len(writer.indent_marker))

\* a block whose first line is on the name's row and whose second line is on
\* its own row, both starting at the same column
C10_SameColumn ==
    /\ pc = "done"
    /\ ~writer.pipes
    /\ \E n \in C10_DataRows, m \in C10_DataRows :
          /\ BlockOf(model, rowLog[n].node) = BlockOf(model, rowLog[m].node)
          /\ rowLog[n].col > 0
          /\ <<rowLog[n].node, rowLog[n].line, 1>> \in corrected
          /\ rowLog[m].col = 0
          /\ model[rowLog[m].node].role # "for_body"
          /\ C10_Start(n) = C10_Start(m)

=============================================================================
